---- MODULE Spec2Model ----
(***************************************************************************)
(* A model of src/app.js (CryptoTracker): the data-fetch hook useApi, the  *)
(* App shell (view routing, 30 s refresh timer, persisted watchlist), the  *)
(* PriceChart component, the Dashboard's derived list and formatPercentage.*)
(*                                                                         *)
(* Each component has its own specification over its own variables; the    *)
(* variables of the other components are held at their idle values.        *)
(*   SpecFmt    formatPercentage                                           *)
(*   SpecWl     watchlist: initial state, toggleWatchlist, persist effect  *)
(*   SpecApp    useApi for the coin list, view changes, refresh timer      *)
(*   SpecChart  PriceChart: fetch effect, render effect, cleanup           *)
(*   SpecDash   Dashboard.filteredCoins                                    *)
(*   SpecView   Watchlist.listCoins under toggles and coin-list fetches     *)
(***************************************************************************)
EXTENDS Integers, Sequences, FiniteSets, TLC

VARIABLES
    \* formatPercentage
    percentage,     \* the argument, in units of 0.004 (an integer k means k/250)
    formatted,      \* the returned string as a sequence of characters, or <<"?">> before the call
    fmtDone,        \* whether formatPercentage has been applied
    \* watchlist
    storage,        \* localStorage['crypto-watchlist']: [present, text]
    appState,       \* "off" | "running" | "crashed"
    watchlist,      \* the watchlist state: a JS value [t, v]
    cardsShown,     \* whether coin cards (and their membership tests) are rendered
    wlErr,          \* the uncaught error that crashed the app, or "none"
    wlHist,         \* history of the last two operations on the watchlist
    \* App shell and useApi for the coin list
    currentView,    \* "dashboard" | "watchlist" | "detail"
    selectedCoin,   \* the id recorded by handleCoinClick, or Null
    timers,         \* the active intervals, each the currentView its callback closed over
    api,            \* useApi state: [data, loading, error]
    inflight,       \* number of requests issued by fetchData and not yet settled
    appHist,        \* what the last event was, and the state it found
    \* PriceChart
    chMounted,      \* whether a PriceChart instance is mounted
    coinId,         \* its coinId prop, or Null
    selectedPeriod, \* its selectedPeriod state
    chartData,      \* its chartData state
    chLoading,      \* its loading state; the canvas is rendered iff this is FALSE
    chartRef,       \* chartRef.current: an index into charts, or 0 for null
    charts,         \* every Chart instance constructed so far, in order
    requests,       \* the market_chart requests in flight
    \* Dashboard
    coins,          \* the coins prop: NoCoins or CoinArray(list of coin summaries)
    searchTerm,     \* the searchTerm prop, a sequence of characters
    sortBy,         \* the sortBy prop
    filteredCoins,  \* the memoised derived list
    \* Watchlist view
    viewCoins,      \* the coins prop of Watchlist: NoCoins or CoinArray(list)
    viewWatchlist,  \* the watchlist prop: the array of ids, in insertion order
    listCoins       \* the coins the Watchlist view renders, in display order

fmtVars == <<percentage, formatted, fmtDone>>
wlVars == <<storage, appState, watchlist, cardsShown, wlErr, wlHist>>
appVars == <<currentView, selectedCoin, timers, api, inflight, appHist>>
chartVars == <<chMounted, coinId, selectedPeriod, chartData, chLoading, chartRef, charts, requests>>
dashVars == <<coins, searchTerm, sortBy, filteredCoins>>
viewVars == <<viewCoins, viewWatchlist, listCoins>>
vars == <<fmtVars, wlVars, appVars, chartVars, dashVars, viewVars>>

\* what each component's actions leave alone
fmtOthers == <<wlVars, appVars, chartVars, dashVars, viewVars>>
wlOthers == <<fmtVars, appVars, chartVars, dashVars, viewVars>>
appOthers == <<fmtVars, wlVars, chartVars, dashVars, viewVars>>
chartOthers == <<fmtVars, wlVars, appVars, dashVars, viewVars>>
dashOthers == <<fmtVars, wlVars, appVars, chartVars, viewVars>>
viewOthers == <<fmtVars, wlVars, appVars, chartVars, dashVars>>

(***************************************************************************)
(* Bounds                                                                  *)
(***************************************************************************)
MaxPct == 150
NumIds == 3
MaxInflight == 2
MaxChartRequests == 2
MaxCharts == 3
MaxCoins == 3

(***************************************************************************)
(* Generic helpers                                                         *)
(***************************************************************************)
Range(s) == {s[i] : i \in DOMAIN s}

Abs(n) == IF n < 0 THEN -n ELSE n

(***************************************************************************)
(* formatPercentage (src/app.js:24)                                        *)
(***************************************************************************)
DigitChar(d) == <<"0", "1", "2", "3", "4", "5", "6", "7", "8", "9">>[d + 1]

RECURSIVE DecStr(_)
DecStr(n) == IF n < 10 THEN <<DigitChar(n)>> ELSE DecStr(n \div 10) \o <<DigitChar(n % 10)>>

\* Number.prototype.toFixed(2) of k/250.  toFixed takes the sign first ("-" iff
\* the number is < 0) and then rounds the magnitude to the nearest hundredth:
\* |k|/250 = 0.4|k| hundredths, never half-way between two hundredths, so the
\* nearest one is floor((4|k| + 5) / 10).
ToFixed2(k) ==
    LET n == (4 * Abs(k) + 5) \div 10
    IN  (IF k < 0 THEN <<"-">> ELSE <<>>)
        \o DecStr(n \div 100) \o <<".">> \o <<DigitChar((n \div 10) % 10), DigitChar(n % 10)>>

formatPercentage(k) ==
    (IF k > 0 THEN <<"+">> ELSE <<>>) \o ToFixed2(k) \o <<"%">>

FmtIdle == percentage = 0 /\ formatted = <<"?">> /\ fmtDone = FALSE

FmtInit == percentage \in -MaxPct..MaxPct /\ formatted = <<"?">> /\ fmtDone = FALSE

FmtCall ==
    /\ ~fmtDone
    /\ formatted' = formatPercentage(percentage)
    /\ fmtDone' = TRUE
    /\ UNCHANGED percentage
    /\ UNCHANGED fmtOthers

(***************************************************************************)
(* Watchlist: initial state (src/app.js:503-510), persist effect           *)
(* (525-527), toggleWatchlist (534-536), membership tests (448, 465)       *)
(***************************************************************************)
AllIds == <<"bitcoin", "ethereum", "solana", "cardano", "ripple">>

Ids == {AllIds[i] : i \in 1..NumIds}

\* JavaScript values the watchlist state can hold: an array of strings, or
\* what JSON.parse returns for other well-formed texts.
JArray(s) == [t |-> "array", v |-> s]
JNull == [t |-> "null", v |-> <<>>]
JNumber == [t |-> "number", v |-> <<>>]
JObject == [t |-> "object", v |-> <<>>]

\* A JSON text is a sequence of tokens.
Tok(k, s) == [k |-> k, s |-> s]
LBracket == Tok("punct", "[")
RBracket == Tok("punct", "]")
Comma == Tok("punct", ",")
LBrace == Tok("punct", "{")
RBrace == Tok("punct", "}")
NullTok == Tok("lit", "null")
NumTok == Tok("num", "7")
StrTok(x) == Tok("str", x)

RECURSIVE JoinElems(_)
JoinElems(s) ==
    IF s = <<>> THEN <<>>
    ELSE IF Len(s) = 1 THEN <<StrTok(s[1])>>
    ELSE <<StrTok(s[1]), Comma>> \o JoinElems(Tail(s))

\* JSON.stringify (src/app.js:526)
JSONstringify(val) ==
    CASE val.t = "array" -> <<LBracket>> \o JoinElems(val.v) \o <<RBracket>>
      [] val.t = "null" -> <<NullTok>>
      [] val.t = "number" -> <<NumTok>>
      [] val.t = "object" -> <<LBrace, RBrace>>

ArrayBody(text) == SubSeq(text, 2, Len(text) - 1)

IsArrayText(text) ==
    /\ Len(text) >= 2
    /\ text[1] = LBracket
    /\ text[Len(text)] = RBracket
    /\ LET body == ArrayBody(text)
       IN  \/ body = <<>>
           \/ /\ Len(body) % 2 = 1
              /\ \A i \in 1..Len(body) :
                    IF i % 2 = 1 THEN body[i].k = "str" ELSE body[i] = Comma

\* the strings of a well-formed array body: every other token
RECURSIVE ElemsOf(_)
ElemsOf(body) ==
    IF body = <<>> THEN <<>>
    ELSE <<body[1].s>> \o (IF Len(body) >= 3 THEN ElemsOf(SubSeq(body, 3, Len(body))) ELSE <<>>)

\* JSON.parse (src/app.js:506) on the texts of this model: [ok, val]; ok = FALSE
\* is a thrown SyntaxError.
JSONparse(text) ==
    CASE text = <<NullTok>> -> [ok |-> TRUE, val |-> JNull]
      [] text = <<NumTok>> -> [ok |-> TRUE, val |-> JNumber]
      [] text = <<LBrace, RBrace>> -> [ok |-> TRUE, val |-> JObject]
      [] IsArrayText(text) ->
            [ok |-> TRUE, val |-> JArray(ElemsOf(ArrayBody(text)))]
      [] OTHER -> [ok |-> FALSE, val |-> JNull]

Absent == [present |-> FALSE, text |-> <<>>]
Stored(text) == [present |-> TRUE, text |-> text]

\* useState initialiser (src/app.js:503-510).  readThrows: localStorage.getItem
\* throws.  getItem returns null for an absent key; null and "" are falsy.
InitialWatchlist(st, readThrows) ==
    IF readThrows THEN JArray(<<>>)
    ELSE IF st.present /\ st.text # <<>>
         THEN LET r == JSONparse(st.text)
              IN  IF r.ok THEN r.val ELSE JArray(<<>>)
         ELSE JArray(<<>>)

\* prev.includes(id)
Includes(s, id) == \E i \in 1..Len(s) : s[i] = id

\* prev.filter((x) => x !== id)
FilterOut(s, id) == SelectSeq(s, LAMBDA x : x # id)

toggleWatchlist_AlwaysAppend(prev, id) == JArray(Append(prev.v, id))

toggleWatchlist_KeepOnlyId(prev, id) ==
    IF Includes(prev.v, id) THEN JArray(SelectSeq(prev.v, LAMBDA x : x = id))
    ELSE JArray(Append(prev.v, id))

\* the updater of toggleWatchlist (src/app.js:534-536), on an array
toggleWatchlist(prev, id) ==
    IF Includes(prev.v, id) THEN JArray(FilterOut(prev.v, id))
    ELSE JArray(Append(prev.v, id))

PersistEffect_SkipEmpty(w, st) ==
    IF w.v = <<>> THEN st ELSE Stored(JSONstringify(w))

\* persist effect (src/app.js:525-527): the value setItem leaves in storage
PersistEffect(w, st) == Stored(JSONstringify(w))

NoDup(s) == \A i, j \in 1..Len(s) : i # j => s[i] # s[j]

\* Texts the storage key may hold before the page loads: arrays of ids (with
\* and without duplicates), other well-formed JSON, and unparseable text.
SeqsUpTo(S, n) == UNION {[1..k -> S] : k \in 0..n}

StoredTexts ==
    {JSONstringify(JArray(s)) : s \in SeqsUpTo(Ids, 2)}
    \cup {<<NullTok>>, <<NumTok>>, <<LBrace, RBrace>>}
    \cup {<<>>, <<LBracket>>, <<LBracket, StrTok(AllIds[1]), Comma, RBracket>>}

NoHist ==
    [op |-> "none", id |-> "none", before |-> JArray(<<>>),
     op2 |-> "none", id2 |-> "none", before2 |-> JArray(<<>>),
     bootCase |-> "none", bootWl |-> JArray(<<>>), bootRead |-> "none",
     from |-> "off"]

\* op, id: the operation; before, from: watchlist and appState when it began
Push(h, op, id, before) ==
    [h EXCEPT !.op = op, !.id = id, !.before = before, !.from = appState,
              !.op2 = h.op, !.id2 = h.id, !.before2 = h.before]

WlIdle ==
    /\ storage = Absent
    /\ appState = "off"
    /\ watchlist = JArray(<<>>)
    /\ cardsShown = FALSE
    /\ wlErr = "none"
    /\ wlHist = NoHist

WlInit ==
    /\ storage \in {Absent} \cup {Stored(t) : t \in StoredTexts}
    /\ appState = "off"
    /\ watchlist = JArray(<<>>)
    /\ cardsShown = FALSE
    /\ wlErr = "none"
    /\ wlHist = NoHist

\* The persist effect runs after the commit of a render in which watchlist
\* changed.  setItem either stores the text or throws (quota, storage
\* disabled); an error thrown by an effect is uncaught and unmounts the app.
RunPersist(w, writeThrows) ==
    IF writeThrows
    THEN /\ storage' = storage
         /\ appState' = "crashed"
         /\ wlErr' = "StorageError"
    ELSE /\ storage' = PersistEffect(w, storage)
         /\ appState' = "running"
         /\ wlErr' = "none"

BootCase(st, readThrows) ==
    IF readThrows THEN "readThrows"
    ELSE IF ~st.present THEN "absent"
    ELSE IF ~JSONparse(st.text).ok THEN "unparsable"
    ELSE "parsed"

\* Page load (or reload): App mounts, the initialiser runs, then the mount effects.
Boot ==
    \E readThrows \in BOOLEAN, writeThrows \in BOOLEAN :
        LET w == InitialWatchlist(storage, readThrows)
        IN  /\ watchlist' = w
            /\ cardsShown' = FALSE
            /\ RunPersist(w, writeThrows)
            /\ wlHist' = [Push(wlHist, "boot", "none", watchlist) EXCEPT
                            !.bootCase = BootCase(storage, readThrows),
                            !.bootWl = w,
                            !.bootRead = IF readThrows THEN "throws" ELSE "ok"]
            /\ UNCHANGED wlOthers

\* The coin list arrives and the cards render: Dashboard evaluates
\* watchlist.includes(coin.id) (src/app.js:448), Watchlist the same (465).
\* On a value that is not an array this raises a TypeError during render.
RenderCards ==
    /\ appState = "running"
    /\ ~cardsShown
    /\ IF watchlist.t = "array"
       THEN /\ cardsShown' = TRUE
            /\ UNCHANGED <<appState, wlErr>>
       ELSE /\ cardsShown' = FALSE
            /\ appState' = "crashed"
            /\ wlErr' = "TypeError"
    /\ wlHist' = Push(wlHist, "cards", "none", watchlist)
    /\ UNCHANGED <<storage, watchlist>>
    /\ UNCHANGED wlOthers

\* A click on a card's star: toggleWatchlist(id), re-render, persist effect.
Toggle ==
    /\ appState = "running"
    /\ cardsShown
    /\ \E id \in Ids, writeThrows \in BOOLEAN :
        LET w == toggleWatchlist(watchlist, id)
        IN  /\ watchlist' = w
            /\ RunPersist(w, writeThrows)
            /\ wlHist' = Push(wlHist, "toggle", id, watchlist)
    /\ UNCHANGED cardsShown
    /\ UNCHANGED wlOthers

WlNext == Boot \/ RenderCards \/ Toggle

(***************************************************************************)
(* useApi (src/app.js:27-56) as used by App for the coin list (512-514),   *)
(* view changes (529-532, 541, 564) and the auto-refresh effect (516-522)  *)
(***************************************************************************)
Null == "<null>"

Views == {"dashboard", "watchlist", "detail"}

\* what the coin-list endpoint may answer with
Payloads == {"coinsA", "coinsB"}

\* How a request settles: fetch resolves with an ok response and a JSON body,
\* fetch resolves with a non-ok status, fetch rejects, or response.json() rejects.
Outcomes ==
    {[kind |-> "ok", status |-> 200, body |-> b] : b \in Payloads}
    \cup {[kind |-> "http", status |-> st, body |-> Null] : st \in {429, 500}}
    \cup {[kind |-> "network", status |-> 0, body |-> Null],
          [kind |-> "badjson", status |-> 200, body |-> Null]}

\* err.message of the error the try block raises (src/app.js:39-41)
ErrMessage(o) ==
    CASE o.kind = "http" /\ o.status = 429 -> "HTTP Error: 429"
      [] o.kind = "http" /\ o.status = 500 -> "HTTP Error: 500"
      [] o.kind = "network" -> "Failed to fetch"
      [] o.kind = "badjson" -> "Unexpected token < in JSON at position 0"

\* fetchData before the await: setLoading(true); setError(null)  (src/app.js:35-36)
ApiStart(s) == [s EXCEPT !.loading = TRUE, !.error = Null]

\* try succeeded: setData(json), then finally  (src/app.js:42, 47)
ApiResolve(s, json) == [s EXCEPT !.data = json, !.loading = FALSE]

ApiReject_ClearsData(s, msg) == [s EXCEPT !.data = Null, !.error = msg, !.loading = FALSE]

\* catch: setError(err.message), then finally  (src/app.js:43-47)
ApiReject(s, msg) == [s EXCEPT !.error = msg, !.loading = FALSE]

AutoRefreshEffect_StaleView(ts, view) == ts

\* The auto-refresh effect re-running after currentView changed: the cleanup
\* of its previous run clears the interval that run created (the latest one),
\* then setInterval registers a callback closing over the new currentView.
AutoRefreshEffect(ts, view) == Append(SubSeq(ts, 1, Len(ts) - 1), view)

\* the interval callback's test (src/app.js:519), on the view it closed over
CallbackRefetches(view) == view = "dashboard" \/ view = "watchlist"

NoAppHist ==
    [kind |-> "none", view |-> "dashboard", inflightBefore |-> 0,
     apiBefore |-> [data |-> Null, loading |-> FALSE, error |-> Null],
     outcome |-> [kind |-> "none", status |-> 0, body |-> Null]]

Event(kind) ==
    [NoAppHist EXCEPT !.kind = kind, !.view = currentView,
                      !.inflightBefore = inflight, !.apiBefore = api]

AppIdle ==
    /\ currentView = "dashboard"
    /\ selectedCoin = Null
    /\ timers = <<>>
    /\ api = [data |-> Null, loading |-> FALSE, error |-> Null]
    /\ inflight = 0
    /\ appHist = NoAppHist

\* After App has mounted: useApi's effect has called fetchData (src/app.js:51-53)
\* and the auto-refresh effect has set its first interval.
AppInit ==
    /\ currentView = "dashboard"
    /\ selectedCoin = Null
    /\ timers = <<"dashboard">>
    /\ api = [data |-> Null, loading |-> TRUE, error |-> Null]
    /\ inflight = 1
    /\ appHist = NoAppHist

\* setCurrentView(v): a re-render and the effect only when the value changes
SetView(v) ==
    /\ currentView' = v
    /\ timers' = IF v # currentView THEN AutoRefreshEffect(timers, v) ELSE timers

\* Header: the logo and the two nav links (src/app.js:82, 98, 105)
NavClick ==
    /\ \E v \in {"dashboard", "watchlist"} : SetView(v)
    /\ appHist' = Event("nav")
    /\ UNCHANGED <<selectedCoin, api, inflight>>
    /\ UNCHANGED appOthers

\* Cards are rendered by Dashboard once the list is loaded without error
\* (src/app.js:391-392, 443) and by Watchlist whenever coins is set (465, 483).
CardsVisible ==
    /\ api.data # Null
    /\ \/ currentView = "watchlist"
       \/ currentView = "dashboard" /\ ~api.loading /\ api.error = Null

\* handleCoinClick (src/app.js:529-532)
CoinClick ==
    /\ CardsVisible
    /\ \E c \in Ids : selectedCoin' = c
    /\ SetView("detail")
    /\ appHist' = Event("coin")
    /\ UNCHANGED <<api, inflight>>
    /\ UNCHANGED appOthers

\* CoinDetail's back button (src/app.js:308, 541)
Back ==
    /\ currentView = "detail"
    /\ SetView("dashboard")
    /\ appHist' = Event("back")
    /\ UNCHANGED <<selectedCoin, api, inflight>>
    /\ UNCHANGED appOthers

\* refetch(): fetchData up to its await
Refetch ==
    /\ api' = ApiStart(api)
    /\ inflight' = inflight + 1

\* Dashboard's Refresh button, or Try Again on its error panel (src/app.js:392, 436)
Refresh ==
    /\ currentView = "dashboard"
    /\ ~api.loading
    /\ inflight < MaxInflight
    /\ Refetch
    /\ appHist' = Event("refresh")
    /\ UNCHANGED <<currentView, selectedCoin, timers>>
    /\ UNCHANGED appOthers

\* One of the active intervals fires (every 30 s).
Tick ==
    /\ \E i \in 1..Len(timers) :
          IF CallbackRefetches(timers[i])
          THEN inflight < MaxInflight /\ Refetch
          ELSE UNCHANGED <<api, inflight>>
    /\ appHist' = Event("tick")
    /\ UNCHANGED <<currentView, selectedCoin, timers>>
    /\ UNCHANGED appOthers

\* A pending request settles; fetchData resumes after its await.
Settle ==
    /\ inflight > 0
    /\ \E o \in Outcomes :
          /\ api' = IF o.kind = "ok" THEN ApiResolve(api, o.body)
                    ELSE ApiReject(api, ErrMessage(o))
          /\ appHist' = [Event("settle") EXCEPT !.outcome = o]
    /\ inflight' = inflight - 1
    /\ UNCHANGED <<currentView, selectedCoin, timers>>
    /\ UNCHANGED appOthers

AppNext == NavClick \/ CoinClick \/ Back \/ Refresh \/ Tick \/ Settle

(***************************************************************************)
(* PriceChart (src/app.js:115-238): fetch effect (123-140), render effect  *)
(* (143-197), cleanup (200-204), period buttons (218-226)                  *)
(***************************************************************************)
Periods == {1, 7, 30, 90}

\* the coins whose detail page is opened
ChartCoins == {AllIds[1], AllIds[2]}

NoChartData == [kind |-> "null", coin |-> Null, period |-> 0, prices |-> FALSE]

\* The JSON body answering the request for (coin, period).  prices = FALSE is
\* a body without a prices field (resp.ok is not tested, so an error body is
\* parsed and stored like any other).
Response(coin, period, prices) ==
    [kind |-> "json", coin |-> coin, period |-> period, prices |-> prices]

\* a request whose component has been unmounted: its setState calls do nothing
Orphan == [coin |-> Null, period |-> 0, live |-> FALSE]

\* destroy() releases the instance and clears what it drew
Destroyed(c) == [c EXCEPT !.status = "destroyed", !.visible = FALSE, !.coin = Null, !.period = 0]

AliveCount(cs) == Cardinality({i \in 1..Len(cs) : cs[i].status = "alive"})

DestroyCurrent_Skip(cs, ref) == cs

\* if (chartRef.current) chartRef.current.destroy()  (src/app.js:152, 202)
DestroyCurrent(cs, ref) ==
    IF ref # 0 THEN [cs EXCEPT ![ref] = Destroyed(cs[ref])] ELSE cs

\* new Chart(ctx, ...) on the canvas now rendered (src/app.js:154-196);
\* aliveAtBirth counts the instances not destroyed when it is constructed.
Construct(cs, data) ==
    Append(cs, [status |-> "alive", coin |-> data.coin, period |-> data.period,
                visible |-> TRUE, aliveAtBirth |-> AliveCount(cs)])

\* While loading the canvas is replaced by the spinner (src/app.js:229-235):
\* a chart drawn on the removed canvas is no longer on screen.
HideAll(cs) == [i \in 1..Len(cs) |-> [cs[i] EXCEPT !.visible = FALSE]]

RemoveAt(s, i) == SubSeq(s, 1, i - 1) \o SubSeq(s, i + 1, Len(s))

ChartIdle ==
    /\ chMounted = FALSE
    /\ coinId = Null
    /\ selectedPeriod = 7
    /\ chartData = NoChartData
    /\ chLoading = TRUE
    /\ chartRef = 0
    /\ charts = <<>>
    /\ requests = <<>>

\* the app is up and no coin detail page is open
ChartInit == ChartIdle

\* fetchChart up to its await (src/app.js:124-130), for the coin and period
\* of the render whose effect this is
FetchEffect(coin, period) ==
    IF coin = Null
    THEN UNCHANGED <<chLoading, requests, charts>>
    ELSE /\ chLoading' = TRUE
         /\ requests' = Append(requests, [coin |-> coin, period |-> period, live |-> TRUE])
         /\ charts' = IF chLoading THEN charts ELSE HideAll(charts)

\* CoinDetail has loaded its coin and renders <PriceChart coinId=...>
\* (src/app.js:355): initial state (116-120), then the mount effects.
ChartMount ==
    /\ ~chMounted
    /\ Len(requests) < MaxChartRequests
    /\ \E c \in ChartCoins :
          /\ coinId' = c
          /\ FetchEffect(c, 7)
    /\ chMounted' = TRUE
    /\ selectedPeriod' = 7
    /\ chartData' = NoChartData
    /\ chartRef' = 0
    /\ UNCHANGED chartOthers

\* a period button (src/app.js:222): setSelectedPeriod, re-render, fetch effect
PeriodClick ==
    /\ chMounted
    /\ Len(requests) < MaxChartRequests
    /\ \E p \in Periods \ {selectedPeriod} :
          /\ selectedPeriod' = p
          /\ FetchEffect(coinId, p)
    /\ UNCHANGED <<chMounted, coinId, chartData, chartRef>>
    /\ UNCHANGED chartOthers

\* render effect (src/app.js:143-197), run because chartData changed
RenderEffect(data) ==
    IF data.kind = "null" \/ ~data.prices
    THEN UNCHANGED <<chartRef, charts>>
    ELSE LET cs == Construct(DestroyCurrent(charts, chartRef), data)
         IN  /\ charts' = cs
             /\ chartRef' = Len(cs)

\* A request settles and fetchChart resumes (src/app.js:131-137).  The state
\* updates of one continuation are applied in one render.
ChartSettle ==
    \E i \in 1..Len(requests) :
        LET r == requests[i]
        IN  /\ requests' = RemoveAt(requests, i)
            /\ IF ~r.live
               THEN UNCHANGED <<chartData, chLoading, chartRef, charts>>
               ELSE \/ \E prices \in BOOLEAN :
                          /\ prices => Len(charts) < MaxCharts
                          /\ chartData' = Response(r.coin, r.period, prices)
                          /\ chLoading' = FALSE
                          /\ RenderEffect(chartData')
                    \/ \* fetch or resp.json() rejected: logged only
                       /\ chLoading' = FALSE
                       /\ UNCHANGED <<chartData, chartRef, charts>>
            /\ UNCHANGED <<chMounted, coinId, selectedPeriod>>
            /\ UNCHANGED chartOthers

\* The detail view is left (src/app.js:82, 98, 105, 541): PriceChart unmounts
\* and its cleanup runs (200-204).  Requests still pending are not cancelled.
ChartUnmount ==
    /\ chMounted
    /\ charts' = DestroyCurrent(charts, chartRef)
    /\ requests' = [i \in 1..Len(requests) |-> Orphan]
    /\ chMounted' = FALSE
    /\ coinId' = Null
    /\ selectedPeriod' = 7
    /\ chartData' = NoChartData
    /\ chLoading' = TRUE
    /\ chartRef' = 0
    /\ UNCHANGED chartOthers

ChartNext == ChartMount \/ PeriodClick \/ ChartSettle \/ ChartUnmount

(***************************************************************************)
(* Dashboard.filteredCoins (src/app.js:362-380)                            *)
(***************************************************************************)
UpperLetters == <<"A", "B", "C", "D", "E", "F", "G", "H", "I", "J", "K", "L", "M",
                  "N", "O", "P", "Q", "R", "S", "T", "U", "V", "W", "X", "Y", "Z">>

LowerLetters == <<"a", "b", "c", "d", "e", "f", "g", "h", "i", "j", "k", "l", "m",
                  "n", "o", "p", "q", "r", "s", "t", "u", "v", "w", "x", "y", "z">>

LowerChar(ch) ==
    IF \E i \in 1..Len(UpperLetters) : UpperLetters[i] = ch
    THEN LowerLetters[CHOOSE i \in 1..Len(UpperLetters) : UpperLetters[i] = ch]
    ELSE ch

\* String.prototype.toLowerCase
toLowerCase(str) == [i \in 1..Len(str) |-> LowerChar(str[i])]

\* String.prototype.includes: sub occurs in str as a contiguous substring
StrIncludes(str, sub) ==
    \E k \in 0..(Len(str) - Len(sub)) :
        \A j \in 1..Len(sub) : str[k + j] = sub[j]

\* the filter callback (src/app.js:364)
MatchesSearch_CaseSensitive(c, term) ==
    \/ StrIncludes(c.name, term)
    \/ StrIncludes(c.symbol, term)

MatchesSearch(c, term) ==
    \/ StrIncludes(toLowerCase(c.name), toLowerCase(term))
    \/ StrIncludes(toLowerCase(c.symbol), toLowerCase(term))

\* the sort comparator (src/app.js:365-378): negative puts a first
CompareCoins(a, b, key) ==
    CASE key = "market_cap" -> b.market_cap - a.market_cap
      [] key = "price" -> b.current_price - a.current_price
      [] key = "volume" -> b.total_volume - a.total_volume
      [] key = "change" -> b.price_change_percentage_24h - a.price_change_percentage_24h
      [] OTHER -> a.market_cap_rank - b.market_cap_rank

\* Array.prototype.sort is stable: an element goes after every element that
\* does not compare greater than it.
RECURSIVE InsertCoin(_, _, _)
InsertCoin(sorted, c, key) ==
    IF sorted = <<>> THEN <<c>>
    ELSE IF CompareCoins(sorted[Len(sorted)], c, key) <= 0
         THEN Append(sorted, c)
         ELSE Append(InsertCoin(SubSeq(sorted, 1, Len(sorted) - 1), c, key), sorted[Len(sorted)])

RECURSIVE SortCoins(_, _)
SortCoins(list, key) ==
    IF list = <<>> THEN <<>>
    ELSE InsertCoin(SortCoins(SubSeq(list, 1, Len(list) - 1), key), list[Len(list)], key)

\* the coins prop: null until the first successful fetch, then an array
NoCoins == [isNull |-> TRUE, list |-> <<>>]
CoinArray(l) == [isNull |-> FALSE, list |-> l]

\* the useMemo body (src/app.js:362-380)
FilteredCoins(cs, term, key) ==
    IF cs.isNull THEN <<>>
    ELSE SortCoins(SelectSeq(cs.list, LAMBDA c : MatchesSearch(c, term)), key)

Coin(id, name, symbol, price, cap, volume, change, rank) ==
    [id |-> id, name |-> name, symbol |-> symbol, current_price |-> price,
     market_cap |-> cap, total_volume |-> volume,
     price_change_percentage_24h |-> change, market_cap_rank |-> rank]

\* The coin summaries the endpoint may return.  Names are mixed case, two
\* prices and two 24h changes tie, and no two fields order the coins alike.
CoinPool ==
    {Coin("bitcoin", <<"B", "i", "t">>, <<"b", "t", "c">>, 5, 9, 4, -2, 1),
     Coin("ethereum", <<"E", "t", "h">>, <<"e", "t", "h">>, 3, 7, 8, 3, 2),
     Coin("solana", <<"S", "o", "l", "a">>, <<"s", "o", "l">>, 1, 5, 6, 0, 3),
     Coin("cardano", <<"A", "d", "a">>, <<"E", "T", "b">>, 3, 2, 1, 3, 4)}

\* lists of distinct coins, in any order
CoinLists ==
    UNION {{l \in [1..n -> CoinPool] : \A i, j \in 1..n : i # j => l[i] # l[j]} : n \in 0..MaxCoins}

SearchTerms ==
    {<<>>, <<"b">>, <<"T">>, <<"e", "t">>, <<"E", "T", "H">>, <<"t", "B">>,
     <<"o", "L">>, <<"x">>, <<"b", "i", "t", "c">>}

\* the keys of the sort buttons (src/app.js:425-429) and one that is none of them
SortKeys == {"rank", "price", "market_cap", "volume", "change", "name"}

DashIdle ==
    /\ coins = NoCoins
    /\ searchTerm = <<>>
    /\ sortBy = "rank"
    /\ filteredCoins = <<>>

\* first render: coins is null, searchTerm '' and sortBy 'rank' (src/app.js:501-502)
DashInit == DashIdle

\* every render recomputes the memo when one of its dependencies changed
Recompute == filteredCoins' = FilteredCoins(coins', searchTerm', sortBy')

\* the coin list is fetched or refetched
CoinsChange ==
    /\ \E l \in CoinLists : coins' = CoinArray(l)
    /\ UNCHANGED <<searchTerm, sortBy>>
    /\ Recompute
    /\ UNCHANGED dashOthers

\* typing in the search box (src/app.js:91)
SearchChange ==
    /\ \E t \in SearchTerms : searchTerm' = t
    /\ UNCHANGED <<coins, sortBy>>
    /\ Recompute
    /\ UNCHANGED dashOthers

\* the sortBy prop changes (src/app.js:431, 554)
SortChange ==
    /\ \E k \in SortKeys : sortBy' = k
    /\ UNCHANGED <<coins, searchTerm>>
    /\ Recompute
    /\ UNCHANGED dashOthers

DashNext == CoinsChange \/ SearchChange \/ SortChange

(***************************************************************************)
(* Watchlist view (src/app.js:464-495) fed by App's coins and watchlist    *)
(* (src/app.js:512-514, 534-536, 543)                                      *)
(***************************************************************************)
\* listCoins (src/app.js:465): the coin list filtered by membership, which
\* keeps the coin list's order
ListCoins(cs, wl) ==
    IF cs.isNull THEN <<>>
    ELSE SelectSeq(cs.list, LAMBDA c : Includes(wl.v, c.id))

ViewIdle ==
    /\ viewCoins = NoCoins
    /\ viewWatchlist = JArray(<<>>)
    /\ listCoins = <<>>

\* App mounted with no stored watchlist; the coin list not fetched yet
ViewInit == ViewIdle

\* the Watchlist view re-renders with the new props
ViewRender == listCoins' = ListCoins(viewCoins', viewWatchlist')

\* the coin list is fetched or refetched (src/app.js:512-514)
ViewCoinsChange ==
    /\ \E l \in CoinLists : viewCoins' = CoinArray(l)
    /\ UNCHANGED viewWatchlist
    /\ ViewRender
    /\ UNCHANGED viewOthers

\* the star of a rendered card is clicked (src/app.js:259-264, 534-536)
ViewToggle ==
    /\ ~viewCoins.isNull
    /\ \E i \in 1..Len(viewCoins.list) :
          viewWatchlist' = toggleWatchlist(viewWatchlist, viewCoins.list[i].id)
    /\ UNCHANGED viewCoins
    /\ ViewRender
    /\ UNCHANGED viewOthers

ViewNext == ViewCoinsChange \/ ViewToggle

(***************************************************************************)
(* Specifications                                                          *)
(***************************************************************************)
InitFmt == FmtInit /\ WlIdle /\ AppIdle /\ ChartIdle /\ DashIdle /\ ViewIdle

NextFmt == FmtCall

SpecFmt == InitFmt /\ [][NextFmt]_vars

InitWl == WlInit /\ FmtIdle /\ AppIdle /\ ChartIdle /\ DashIdle /\ ViewIdle

SpecWl == InitWl /\ [][WlNext]_vars

InitApp == AppInit /\ FmtIdle /\ WlIdle /\ ChartIdle /\ DashIdle /\ ViewIdle

SpecApp == InitApp /\ [][AppNext]_vars

InitChart == ChartInit /\ FmtIdle /\ WlIdle /\ AppIdle /\ DashIdle /\ ViewIdle

SpecChart == InitChart /\ [][ChartNext]_vars

InitDash == DashInit /\ FmtIdle /\ WlIdle /\ AppIdle /\ ChartIdle /\ ViewIdle

SpecDash == InitDash /\ [][DashNext]_vars

InitView == ViewInit /\ FmtIdle /\ WlIdle /\ AppIdle /\ ChartIdle /\ DashIdle

SpecView == InitView /\ [][ViewNext]_vars

(***************************************************************************)
(* Claims                                                                  *)
(***************************************************************************)

\* C3: starting from a watchlist that is empty or duplicate-free at startup,
\* after any sequence of toggleWatchlist(id) calls the watchlist contains no
\* id more than once.
C3_NoDuplicates ==
    (appState # "off" /\ wlHist.bootWl.t = "array" /\ NoDup(wlHist.bootWl.v))
        => (watchlist.t = "array" /\ NoDup(watchlist.v))

\* two toggles in a row have acted on a duplicate-free watchlist, which now
\* holds two ids
C3_Witness ==
    /\ appState = "running"
    /\ NoDup(wlHist.bootWl.v)
    /\ wlHist.op = "toggle"
    /\ wlHist.op2 = "toggle"
    /\ Len(watchlist.v) >= 2

\* C4: for a duplicate-free watchlist W and any id, toggleWatchlist(id) called
\* twice in a row leaves a watchlist with exactly the same set of ids as W.
C4_DoubleToggleRestoresSet ==
    (/\ wlHist.op = "toggle"
     /\ wlHist.op2 = "toggle"
     /\ wlHist.id = wlHist.id2
     /\ NoDup(wlHist.before2.v))
        => Range(watchlist.v) = Range(wlHist.before2.v)

\* a double toggle of an id that was in W, not in last place: the set is
\* restored although the order is not
C4_Witness ==
    /\ wlHist.op = "toggle"
    /\ wlHist.op2 = "toggle"
    /\ wlHist.id = wlHist.id2
    /\ NoDup(wlHist.before2.v)
    /\ Len(wlHist.before2.v) >= 2
    /\ wlHist.before2.v[1] = wlHist.id
    /\ watchlist # wlHist.before2

\* C5: once the persist effect of a toggle (or of the mount) has run, the
\* value stored under the key is the serialisation of the whole current
\* watchlist, and a restart at that point loads a watchlist equal to it, same
\* ids in the same order.
C5_PersistRoundTrip ==
    /\ (appState = "running" /\ watchlist.t = "array")
          => /\ storage = Stored(JSONstringify(watchlist))
             /\ InitialWatchlist(storage, FALSE) = watchlist
    /\ (/\ wlHist.op = "boot"
        /\ wlHist.op2 = "toggle"
        /\ wlHist.from = "running"
        /\ wlHist.bootRead = "ok")
          => watchlist = wlHist.before

\* the page was reloaded right after a toggle that left two ids, and the
\* reload read the key
C5_Witness ==
    /\ appState = "running"
    /\ wlHist.op = "boot"
    /\ wlHist.op2 = "toggle"
    /\ wlHist.from = "running"
    /\ wlHist.bootRead = "ok"
    /\ Len(watchlist.v) = 2
    /\ watchlist = wlHist.before

\* C6: at startup an absent key, a throwing read or unparseable text gives the
\* empty list, and in every case the loaded watchlist is a list of ids on
\* which later toggles and membership tests raise no error.
C6_LoadedWatchlistIsList ==
    appState # "off" =>
        /\ wlHist.bootCase \in {"absent", "readThrows", "unparsable"}
              => wlHist.bootWl = JArray(<<>>)
        /\ wlHist.bootWl.t = "array"
        /\ wlErr # "TypeError"

\* C9: formatPercentage(x) starts with "+" if and only if x >= 0.
C9_PlusIffNonNegative ==
    fmtDone => ((formatted[1] = "+") <=> (percentage >= 0))

\* C1: when a request issued by fetchData fails (fetch rejects, the status is
\* not ok, or JSON parsing throws), at its completion error is the failure
\* message, loading is false and data is what it was just before.
C1_FailureKeepsData ==
    (appHist.kind = "settle" /\ appHist.outcome.kind # "ok")
        => /\ api.error = ErrMessage(appHist.outcome)
           /\ api.loading = FALSE
           /\ api.data = appHist.apiBefore.data

\* a request failed after an earlier one had delivered a coin list
C1_Witness ==
    /\ appHist.kind = "settle"
    /\ appHist.outcome.kind = "http"
    /\ appHist.apiBefore.data \in Payloads
    /\ appHist.apiBefore.loading
    /\ api.data = appHist.apiBefore.data

C2_ChartMatchesSelection ==
    (chMounted /\ ~chLoading) =>
        /\ (chartData.kind # "null" /\ chartData.prices)
              => (chartData.coin = coinId /\ chartData.period = selectedPeriod)
        /\ \A i \in 1..Len(charts) :
              (charts[i].status = "alive" /\ charts[i].visible)
                  => (charts[i].coin = coinId /\ charts[i].period = selectedPeriod)

\* C10: each new Chart instance is constructed only after the previous one
\* has been destroyed, so at most one undestroyed instance exists at any time,
\* and none after teardown.
C10_OneChartInstance ==
    /\ AliveCount(charts) <= 1
    /\ \A i \in 1..Len(charts) : charts[i].aliveAtBirth = 0
    /\ ~chMounted => AliveCount(charts) = 0

\* a second chart has been constructed in place of a first, and after a later
\* teardown a third lives in a new PriceChart
C10_Witness ==
    /\ Len(charts) = 3
    /\ chMounted
    /\ charts[1].status = "destroyed"
    /\ charts[2].status = "destroyed"
    /\ charts[3].status = "alive"
    /\ Len(requests) > 0

\* two characters that differ at most in case
SameLetter(a, b) ==
    \/ a = b
    \/ \E i \in 1..Len(UpperLetters) : {a, b} = {UpperLetters[i], LowerLetters[i]}

ContainsIgnoringCase(str, sub) ==
    \E k \in 0..(Len(str) - Len(sub)) :
        \A j \in 1..Len(sub) : SameLetter(str[k + j], sub[j])

\* a does not come after b under the key
InOrder(a, b, key) ==
    CASE key = "price" -> a.current_price >= b.current_price
      [] key = "market_cap" -> a.market_cap >= b.market_cap
      [] key = "volume" -> a.total_volume >= b.total_volume
      [] key = "change" -> a.price_change_percentage_24h >= b.price_change_percentage_24h
      [] OTHER -> a.market_cap_rank <= b.market_cap_rank

\* C8: the derived list holds exactly the coins whose name or symbol contains
\* the search term ignoring case, descending by price / market_cap /
\* total_volume / 24h change for those keys, ascending by market_cap_rank for
\* rank and any unrecognised key; it is empty when the coin list is absent.
C8_FilteredSorted ==
    IF coins.isNull THEN filteredCoins = <<>>
    ELSE /\ Range(filteredCoins) =
                {c \in Range(coins.list) : \/ ContainsIgnoringCase(c.name, searchTerm)
                                      \/ ContainsIgnoringCase(c.symbol, searchTerm)}
         /\ \A i, j \in 1..Len(filteredCoins) :
                i # j => filteredCoins[i] # filteredCoins[j]
         /\ \A i, j \in 1..Len(filteredCoins) :
                i < j => InOrder(filteredCoins[i], filteredCoins[j], sortBy)

\* a search in another case than the names keeps two of three coins, one by
\* its symbol only, and the volume order differs from the list's
C8_Witness ==
    /\ ~coins.isNull
    /\ Len(coins.list) = 3
    /\ searchTerm = <<"e", "t">>
    /\ sortBy = "volume"
    /\ Len(filteredCoins) = 2
    /\ filteredCoins[1].id = "ethereum"
    /\ filteredCoins[2].id = "cardano"
    /\ coins.list[1].id = "cardano"

\* position of id in the watchlist: smaller means toggled in earlier
InsertionRank(id) == CHOOSE i \in 1..Len(viewWatchlist.v) : viewWatchlist.v[i] = id

\* C11: the Watchlist view shows the watched coins in the order their ids were
\* inserted: of two watched coins present in the coin list, the one toggled
\* in earlier is displayed first.
C11_DisplayInInsertionOrder ==
    /\ \A c \in Range(listCoins) : Includes(viewWatchlist.v, c.id)
    /\ \A i, j \in 1..Len(listCoins) :
          i < j => InsertionRank(listCoins[i].id) < InsertionRank(listCoins[j].id)

====
